---- MODULE Spec2Model ----
(***************************************************************************)
(* Model of the plugin registry of auria-plugin (src/src/lib.rs).          *)
(*                                                                         *)
(* The store is the HashMap behind one tokio RwLock.  Every registry       *)
(* method holds the lock for one critical section with no await inside,    *)
(* so a critical section is one atomic step.  register is the exception:   *)
(* it takes a shared guard for the contains_key test, drops it, builds the *)
(* metadata and then takes an exclusive guard for the insert, so it is two *)
(* steps and other callers can run between them.                           *)
(*                                                                         *)
(* A caller has state of its own only between the two sections of         *)
(* register, and that state is the metadata it has built: the calls in     *)
(* flight are kept as a bag of metadata, at most MaxInFlight of them.       *)
(* Every other call is one step of an anonymous caller.                    *)
(*                                                                         *)
(* loaded_at (wall-clock seconds) is left out of the metadata record: no   *)
(* operation reads it.                                                     *)
(***************************************************************************)
EXTENDS Integers, Sequences, FiniteSets, Bags, TLC

\* ------------------------------------------------------------------ bounds
MaxInFlight == 2
\* entries of a directory given to load_plugins_from_dir
MaxDirEntries == 2
NumPlugins == 3
\* tasks that call the registry at the same time, for the lock's protocol
NumTasks == 2

\* --------------------------------------------------------------- PluginType
Builtin(t) == [tag |-> t, label |-> ""]
Custom(l) == [tag |-> "Custom", label |-> l]

BuiltinTags == {"Backend", "Router", "Middleware", "Storage", "Security", "Monitoring"}
CustomLabels == {"test", "Backend"}
PluginType == {Builtin(t) : t \in BuiltinTags} \cup {Custom(l) : l \in CustomLabels}

\* mutant: every Custom category equals every other
PluginType_eq_tag(a, b) == a.tag = b.tag

\* derive(PartialEq): same variant, and for Custom the same label
PluginType_eq(a, b) ==
    /\ a.tag = b.tag
    /\ (a.tag = "Custom" => a.label = b.label)

\* ------------------------------------------------------------------ plugins
\* The plugin objects callers hand to register: name(), version(), plugin_type()
PluginList ==
    << [name |-> "custom-backend", version |-> "1.0.0", plugin_type |-> Builtin("Backend")],
       [name |-> "custom-router",  version |-> "1.0.0", plugin_type |-> Builtin("Router")],
       [name |-> "custom-backend", version |-> "2.0.0", plugin_type |-> Custom("Backend")],
       [name |-> "custom-router",  version |-> "2.0.0", plugin_type |-> Builtin("Backend")],
       [name |-> "test",           version |-> "1.0.0", plugin_type |-> Custom("test")],
       [name |-> "custom-middleware", version |-> "1.0.0", plugin_type |-> Builtin("Middleware")] >>

Plugins == {PluginList[i] : i \in 1..NumPlugins}
Names == {pl.name : pl \in Plugins}
\* the categories callers ask list_by_type for: those in use and a Custom
\* label of its own
QueryTypes == {pl.plugin_type : pl \in Plugins} \cup {Custom("test")}

\* ------------------------------------------------------------- PluginHooks
PluginHooks_none ==
    [pre_execution |-> FALSE, post_execution |-> FALSE, pre_routing |-> FALSE,
     post_routing |-> FALSE, on_error |-> FALSE, on_request |-> FALSE,
     on_response |-> FALSE]

PluginHooks_all ==
    [pre_execution |-> TRUE, post_execution |-> TRUE, pre_routing |-> TRUE,
     post_routing |-> TRUE, on_error |-> TRUE, on_request |-> TRUE,
     on_response |-> TRUE]

\* ----------------------------------------------------------- PluginMetadata
\* mutant: a new entry starts with every hook set
PluginMetadata_new_hooks_all(name, version, plugin_type) ==
    [name |-> name, version |-> version, plugin_type |-> plugin_type,
     description |-> "", author |-> "", dependencies |-> << >>,
     hooks |-> PluginHooks_all, enabled |-> TRUE]

\* mutant: a new entry starts disabled
PluginMetadata_new_disabled(name, version, plugin_type) ==
    [name |-> name, version |-> version, plugin_type |-> plugin_type,
     description |-> "", author |-> "", dependencies |-> << >>,
     hooks |-> PluginHooks_none, enabled |-> FALSE]

PluginMetadata_new(name, version, plugin_type) ==
    [name |-> name, version |-> version, plugin_type |-> plugin_type,
     description |-> "", author |-> "", dependencies |-> << >>,
     hooks |-> PluginHooks_none, enabled |-> TRUE]

PluginEntry(metadata) == [metadata |-> metadata]

PluginInfo(m) ==
    [name |-> m.name, version |-> m.version, plugin_type |-> m.plugin_type,
     enabled |-> m.enabled]

\* ------------------------------------------------------ Option and Result
None == [some |-> FALSE]
Some(v) == [some |-> TRUE, val |-> v]

Ok == [ok |-> TRUE]
Err(msg, name) == [ok |-> FALSE, kind |-> "ExecutionError", msg |-> msg, name |-> name]
AlreadyRegistered(name) == Err("already registered", name)
NotFound(name) == Err("not found", name)

\* ----------------------------------------------------------------- HashMap
EmptyMap == [k \in {} |-> None]
contains_key(m, k) == k \in DOMAIN m
\* mutant: a key that is already there keeps its value
insert_if_absent(m, k, v) == [x \in (DOMAIN m) \cup {k} |-> IF x \in DOMAIN m THEN m[x] ELSE v]

\* HashMap::insert replaces the value of a key that is already there
insert(m, k, v) == [x \in (DOMAIN m) \cup {k} |-> IF x = k THEN v ELSE m[x]]
remove(m, k) == [x \in (DOMAIN m) \ {k} |-> m[x]]

\* values() visits every key once, in an order the map chooses
Orders(m) ==
    {s \in [1..Cardinality(DOMAIN m) -> DOMAIN m] :
        \A i, j \in 1..Cardinality(DOMAIN m) : i # j => s[i] # s[j]}

\* ---------------------------------------------------------- PluginRegistry
\* mutant: the test looks for the version instead of the name
register_check_version(m, plugin) == contains_key(m, plugin.version)

\* register, first critical section: the contains_key test under read()
register_check(m, plugin) == contains_key(m, plugin.name)

\* mutant: the entry is stored under the version instead of the name
register_insert_by_version(m, metadata) == insert(m, metadata.version, PluginEntry(metadata))

\* register, second critical section: the insert under write()
register_insert(m, metadata) == insert(m, metadata.name, PluginEntry(metadata))

\* mutant: the whole map is cleared
unregister_clear(m, name) ==
    [plugins |-> EmptyMap,
     result  |-> IF contains_key(m, name) THEN Some(m[name].metadata) ELSE None]

\* mutant: the entry is returned but stays in the map
unregister_keep(m, name) ==
    [plugins |-> m,
     result  |-> IF contains_key(m, name) THEN Some(m[name].metadata) ELSE None]

unregister(m, name) ==
    [plugins |-> remove(m, name),
     result  |-> IF contains_key(m, name) THEN Some(m[name].metadata) ELSE None]

get_metadata(m, name) ==
    IF contains_key(m, name) THEN Some(m[name].metadata) ELSE None

\* mutant: the first entry visited is left out
list_plugins_skip_first(m, ord) ==
    [i \in 1..(Len(ord) - 1) |-> PluginInfo(m[ord[i + 1]].metadata)]

\* ord is the order in which values() visits the entries
list_plugins(m, ord) ==
    [i \in 1..Len(ord) |-> PluginInfo(m[ord[i]].metadata)]

list_by_type(m, ord, plugin_type) ==
    LET kept == SelectSeq(ord, LAMBDA k : PluginType_eq(m[k].metadata.plugin_type, plugin_type))
    IN  [i \in 1..Len(kept) |-> PluginInfo(m[kept[i]].metadata)]

\* mutant: enable flips the flag
enable_toggle(m, name) ==
    IF contains_key(m, name)
    THEN [plugins |-> [m EXCEPT ![name].metadata.enabled = ~@], result |-> Ok]
    ELSE [plugins |-> m, result |-> NotFound(name)]

enable(m, name) ==
    IF contains_key(m, name)
    THEN [plugins |-> [m EXCEPT ![name].metadata.enabled = TRUE], result |-> Ok]
    ELSE [plugins |-> m, result |-> NotFound(name)]

\* mutant: disable clears the flag of every entry
disable_all(m, name) ==
    IF contains_key(m, name)
    THEN [plugins |-> [k \in DOMAIN m |-> [m[k] EXCEPT !.metadata.enabled = FALSE]], result |-> Ok]
    ELSE [plugins |-> m, result |-> NotFound(name)]

disable(m, name) ==
    IF contains_key(m, name)
    THEN [plugins |-> [m EXCEPT ![name].metadata.enabled = FALSE], result |-> Ok]
    ELSE [plugins |-> m, result |-> NotFound(name)]

\* mutant: a name that is not there counts as enabled
is_enabled_or_true(m, name) ==
    IF contains_key(m, name) THEN m[name].metadata.enabled ELSE TRUE

is_enabled(m, name) ==
    IF contains_key(m, name) THEN m[name].metadata.enabled ELSE FALSE

\* -------------------------------------------------------------------- state
VARIABLES
    plugins,     \* PluginRegistry.plugins: name -> PluginEntry
    inflight,    \* bag of the metadata built by the register calls between their two sections
    last,        \* the call that returned in the latest step: op, arg, found, val
    successes,   \* history: per name, register calls that returned Ok since the name was last removed
    lastToggle,  \* history: per name, the latest successful enable/disable since the name became registered
    removed,     \* history: the name and state of the entry the latest removing unregister took out
    clean,       \* history: no unregister was called and no name was given to register twice
    issued,      \* history (while clean): names given to register
    returnedOk,  \* history (while clean): names whose register returned Ok
    config,      \* PluginManager.config
    task,        \* per task, where it stands with the store's RwLock
    queue        \* the RwLock's first-in first-out queue of waiting tasks

vars == <<plugins, inflight, last, successes, lastToggle, removed, clean, issued, returnedOk,
          config, task, queue>>

\* what the registry's own methods never touch
manager == <<config>>

\* the lock's protocol; a step that is one whole critical section leaves it
\* as it found it
locking == <<task, queue>>

Tasks == 1..NumTasks
LockFree == task = [t \in Tasks |-> "idle"] /\ queue = << >>

\* what a call finds for a name before it acts
EntryState(m, n) ==
    IF ~contains_key(m, n) THEN "Unregistered"
    ELSE IF m[n].metadata.enabled THEN "Enabled" ELSE "Disabled"

NoReturn == [op |-> "none"]
NothingRemoved == [name |-> "", state |-> "never"]
Returned(op, arg, found, val) == [op |-> op, arg |-> arg, found |-> found, val |-> val]

\* PluginConfig::default
PluginConfig_default == [plugin_dirs |-> << >>, auto_enable |-> TRUE, enable_hot_reload |-> FALSE]
\* the configurations handed to PluginManager::with_config
PluginConfigs == {[PluginConfig_default EXCEPT !.auto_enable = a] : a \in BOOLEAN}

Init ==
    /\ config = PluginConfig_default
    /\ plugins = EmptyMap
    /\ inflight = EmptyBag
    /\ last = NoReturn
    /\ successes = [n \in Names |-> 0]
    /\ lastToggle = [n \in Names |-> "none"]
    /\ removed = NothingRemoved
    /\ clean = TRUE
    /\ issued = {}
    /\ returnedOk = {}
    /\ LockFree

\* ---------------------------------------------------------------- history
\* a register call for name is issued
IssueRegister(name) ==
    IF clean /\ name \notin issued
    THEN /\ clean' = TRUE
         /\ issued' = issued \cup {name}
    ELSE /\ clean' = FALSE
         /\ issued' = {}

\* a register call for name returns Ok
NoteRegisterOk(name) ==
    returnedOk' = IF clean' THEN returnedOk \cup {name} ELSE {}

KeepLog == returnedOk' = IF clean' THEN returnedOk ELSE {}

Dirty ==
    /\ clean' = FALSE
    /\ issued' = {}
    /\ returnedOk' = {}

\* ------------------------------------------------------------------ actions
\* register, lines 113-119: the name is there, the call returns the error
RegisterDuplicate(plugin) ==
    /\ register_check(plugins, plugin)
    /\ last' = Returned("register", plugin.name, EntryState(plugins, plugin.name),
                        AlreadyRegistered(plugin.name))
    /\ IssueRegister(plugin.name)
    /\ KeepLog
    /\ UNCHANGED <<plugins, inflight, successes, lastToggle, removed, manager, locking>>

\* register, lines 113-125: the name is not there, the guard is dropped and
\* the metadata is built
RegisterCheck(plugin) ==
    /\ BagCardinality(inflight) < MaxInFlight
    /\ ~register_check(plugins, plugin)
    /\ inflight' = inflight (+)
          SetToBag({PluginMetadata_new(plugin.name, plugin.version, plugin.plugin_type)})
    /\ last' = NoReturn
    /\ IssueRegister(plugin.name)
    /\ KeepLog
    /\ UNCHANGED <<plugins, successes, lastToggle, removed, manager, locking>>

\* register, lines 127-129
RegisterInsert(metadata) ==
    /\ BagIn(metadata, inflight)
    /\ plugins' = register_insert(plugins, metadata)
    /\ last' = Returned("register", metadata.name, EntryState(plugins, metadata.name), Ok)
    /\ successes' = [successes EXCEPT ![metadata.name] = @ + 1]
    /\ clean' = clean
    /\ issued' = issued
    /\ NoteRegisterOk(metadata.name)
    /\ inflight' = inflight (-) SetToBag({metadata})
    /\ UNCHANGED <<lastToggle, removed, manager, locking>>

Unregister(name) ==
    /\ LET r == unregister(plugins, name)
       IN  /\ plugins' = r.plugins
           /\ last' = Returned("unregister", name, EntryState(plugins, name), r.result)
           /\ removed' = IF r.result.some
                         THEN [name |-> name, state |-> EntryState(plugins, name)]
                         ELSE removed
    /\ successes' = [successes EXCEPT ![name] = 0]
    /\ lastToggle' = [lastToggle EXCEPT ![name] = "none"]
    /\ Dirty
    /\ UNCHANGED <<inflight, manager, locking>>

GetMetadata(name) ==
    /\ last' = Returned("get_metadata", name, EntryState(plugins, name), get_metadata(plugins, name))
    /\ UNCHANGED <<plugins, inflight, successes, lastToggle, removed, clean, issued, returnedOk, manager, locking>>

ListPlugins ==
    /\ \E ord \in Orders(plugins) :
          last' = Returned("list_plugins", "", "", list_plugins(plugins, ord))
    /\ UNCHANGED <<plugins, inflight, successes, lastToggle, removed, clean, issued, returnedOk, manager, locking>>

ListByType(plugin_type) ==
    /\ \E ord \in Orders(plugins) :
          last' = Returned("list_by_type", plugin_type, "", list_by_type(plugins, ord, plugin_type))
    /\ UNCHANGED <<plugins, inflight, successes, lastToggle, removed, clean, issued, returnedOk, manager, locking>>

Enable(name) ==
    /\ LET r == enable(plugins, name)
       IN  /\ plugins' = r.plugins
           /\ last' = Returned("enable", name, EntryState(plugins, name), r.result)
           /\ lastToggle' = IF r.result.ok THEN [lastToggle EXCEPT ![name] = "enable"]
                            ELSE lastToggle
    /\ UNCHANGED <<inflight, successes, removed, clean, issued, returnedOk, manager, locking>>

Disable(name) ==
    /\ LET r == disable(plugins, name)
       IN  /\ plugins' = r.plugins
           /\ last' = Returned("disable", name, EntryState(plugins, name), r.result)
           /\ lastToggle' = IF r.result.ok THEN [lastToggle EXCEPT ![name] = "disable"]
                            ELSE lastToggle
    /\ UNCHANGED <<inflight, successes, removed, clean, issued, returnedOk, manager, locking>>

IsEnabled(name) ==
    /\ last' = Returned("is_enabled", name, EntryState(plugins, name), is_enabled(plugins, name))
    /\ UNCHANGED <<plugins, inflight, successes, lastToggle, removed, clean, issued, returnedOk, manager, locking>>

Next ==
    \/ \E plugin \in Plugins : RegisterDuplicate(plugin)
    \/ \E plugin \in Plugins : RegisterCheck(plugin)
    \/ \E metadata \in BagToSet(inflight) : RegisterInsert(metadata)
    \/ \E name \in Names : Unregister(name)
    \/ \E name \in Names : GetMetadata(name)
    \/ ListPlugins
    \/ \E t \in QueryTypes : ListByType(t)
    \/ \E name \in Names : Enable(name)
    \/ \E name \in Names : Disable(name)
    \/ \E name \in Names : IsEnabled(name)

Spec == Init /\ [][Next]_vars

TypeOK ==
    /\ DOMAIN plugins \subseteq Names
    /\ BagCardinality(inflight) <= MaxInFlight
    /\ \A metadata \in BagToSet(inflight) : metadata.name \in Names

\* ------------------------------------------------------------ PluginManager
\* register_plugin hands the plugin to registry.register: the same two sections
register_plugin_check(m, plugin) == register_check(m, plugin)
register_plugin_insert(m, metadata) == register_insert(m, metadata)

unregister_plugin(m, name) == unregister(m, name)

manager_list_plugins(m, ord) == list_plugins(m, ord)

\* mutant: the info always says enabled
get_plugin_info_enabled(m, name) ==
    LET r == get_metadata(m, name)
    IN  IF r.some
        THEN Some([name |-> r.val.name, version |-> r.val.version,
                   plugin_type |-> r.val.plugin_type, enabled |-> TRUE])
        ELSE None

get_plugin_info(m, name) ==
    LET r == get_metadata(m, name)
    IN  IF r.some
        THEN Some([name |-> r.val.name, version |-> r.val.version,
                   plugin_type |-> r.val.plugin_type, enabled |-> r.val.enabled])
        ELSE None

enable_plugin(m, name) == enable(m, name)
disable_plugin(m, name) == disable(m, name)

\* the history variables follow the registry's own callers only
history == <<successes, lastToggle, removed, clean, issued, returnedOk>>

\* PluginManager::new / with_config: an empty registry and the given config
InitManager ==
    /\ config \in PluginConfigs
    /\ plugins = EmptyMap
    /\ inflight = EmptyBag
    /\ last = NoReturn
    /\ successes = [n \in Names |-> 0]
    /\ lastToggle = [n \in Names |-> "none"]
    /\ removed = NothingRemoved
    /\ clean = TRUE
    /\ issued = {}
    /\ returnedOk = {}
    /\ LockFree

\* the call is inside registry.register, between its two sections
Awaiting(op, plugin) == Returned(op, plugin, "", "")

RegisterPluginDuplicate(plugin) ==
    /\ register_plugin_check(plugins, plugin)
    /\ last' = Returned("register_plugin", plugin.name, EntryState(plugins, plugin.name),
                        AlreadyRegistered(plugin.name))
    /\ UNCHANGED <<plugins, inflight, history, manager, locking>>

RegisterPluginCheck(plugin) ==
    /\ BagCardinality(inflight) < MaxInFlight
    /\ ~register_plugin_check(plugins, plugin)
    /\ inflight' = inflight (+)
          SetToBag({PluginMetadata_new(plugin.name, plugin.version, plugin.plugin_type)})
    /\ last' = Awaiting("register_plugin.await", plugin)
    /\ UNCHANGED <<plugins, history, manager, locking>>

RegisterPluginInsert(metadata) ==
    /\ BagIn(metadata, inflight)
    /\ plugins' = register_plugin_insert(plugins, metadata)
    /\ last' = Returned("register_plugin", metadata.name, EntryState(plugins, metadata.name), Ok)
    /\ inflight' = inflight (-) SetToBag({metadata})
    /\ UNCHANGED <<history, manager, locking>>

UnregisterPlugin(name) ==
    /\ LET r == unregister_plugin(plugins, name)
       IN  /\ plugins' = r.plugins
           /\ last' = Returned("unregister_plugin", name, EntryState(plugins, name), r.result)
    /\ UNCHANGED <<inflight, history, manager, locking>>

ManagerListPlugins ==
    /\ \E ord \in Orders(plugins) :
          last' = Returned("manager.list_plugins", "", "", manager_list_plugins(plugins, ord))
    /\ UNCHANGED <<plugins, inflight, history, manager, locking>>

GetPluginInfo(name) ==
    /\ last' = Returned("get_plugin_info", name, EntryState(plugins, name),
                        get_plugin_info(plugins, name))
    /\ UNCHANGED <<plugins, inflight, history, manager, locking>>

EnablePlugin(name) ==
    /\ LET r == enable_plugin(plugins, name)
       IN  /\ plugins' = r.plugins
           /\ last' = Returned("enable_plugin", name, EntryState(plugins, name), r.result)
    /\ UNCHANGED <<inflight, history, manager, locking>>

DisablePlugin(name) ==
    /\ LET r == disable_plugin(plugins, name)
       IN  /\ plugins' = r.plugins
           /\ last' = Returned("disable_plugin", name, EntryState(plugins, name), r.result)
    /\ UNCHANGED <<inflight, history, manager, locking>>

NextManager ==
    \/ \E plugin \in Plugins : RegisterPluginDuplicate(plugin)
    \/ \E plugin \in Plugins : RegisterPluginCheck(plugin)
    \/ \E metadata \in BagToSet(inflight) : RegisterPluginInsert(metadata)
    \/ \E name \in Names : UnregisterPlugin(name)
    \/ ManagerListPlugins
    \/ \E name \in Names : GetPluginInfo(name)
    \/ \E name \in Names : EnablePlugin(name)
    \/ \E name \in Names : DisablePlugin(name)

SpecManager == InitManager /\ [][NextManager]_vars

\* ------------------------------------------------- load_plugins_from_dir
\* a path as file stem and the text after the last dot ("" when there is none)
Path(stem, ext) == [stem |-> stem, ext |-> ext]

\* Path::extension: None for a file name without a dot
extension(path) == IF path.ext = "" THEN None ELSE Some(path.ext)

\* an item of the ReadDir iterator: io::Result<DirEntry>
DirEntryOk(path) == [ok |-> TRUE, path |-> path]
DirEntryErr == [ok |-> FALSE, path |-> Path("", "")]

DirEntries ==
    {DirEntryErr,
     DirEntryOk(Path("libbackend", "so")),
     DirEntryOk(Path("router", "dll")),
     DirEntryOk(Path("middleware", "dylib")),
     DirEntryOk(Path("notes", "txt")),
     DirEntryOk(Path("README", ""))}

EntrySeqs == UNION {[1..n -> DirEntries] : n \in 0..MaxDirEntries}

\* what the file system answers for the path given as dir: nothing there;
\* something there that read_dir fails on (a file, a directory without
\* permission); a directory read_dir yields the entries of
NoDir == [exists |-> FALSE, readable |-> FALSE, entries |-> << >>]
Unreadable == [exists |-> TRUE, readable |-> FALSE, entries |-> << >>]
Dirs ==
    {NoDir, Unreadable} \cup
    {[exists |-> TRUE, readable |-> TRUE, entries |-> es] : es \in EntrySeqs}

OkCount(n) == [ok |-> TRUE, val |-> n]

is_candidate(path) ==
    LET e == extension(path)
    IN  IF e.some THEN e.val = "so" \/ e.val = "dll" \/ e.val = "dylib" ELSE FALSE

\* the loop over entries.flatten(): failed entries are skipped
RECURSIVE count_candidates(_)
count_candidates(entries) ==
    IF entries = << >> THEN 0
    ELSE LET entry == Head(entries)
             rest == count_candidates(Tail(entries))
         IN  IF entry.ok /\ is_candidate(entry.path) THEN rest + 1 ELSE rest

\* mutant: a read_dir failure is returned to the caller
load_plugins_from_dir_propagate(m, dir) ==
    IF ~dir.exists THEN [plugins |-> m, result |-> OkCount(0)]
    ELSE IF ~dir.readable THEN [plugins |-> m, result |-> Err("read_dir failed", "")]
    ELSE [plugins |-> m, result |-> OkCount(count_candidates(dir.entries))]

\* mutant: a directory with candidates gets a plugin registered
load_plugins_from_dir_registers(m, dir) ==
    IF ~dir.exists THEN [plugins |-> m, result |-> OkCount(0)]
    ELSE IF ~dir.readable THEN [plugins |-> m, result |-> OkCount(0)]
    ELSE LET loaded == count_candidates(dir.entries)
         IN  [plugins |-> IF loaded > 0
                          THEN insert(m, PluginList[1].name,
                                 PluginEntry(PluginMetadata_new(PluginList[1].name,
                                     PluginList[1].version, PluginList[1].plugin_type)))
                          ELSE m,
              result |-> OkCount(loaded)]

load_plugins_from_dir(m, dir) ==
    IF ~dir.exists THEN [plugins |-> m, result |-> OkCount(0)]
    ELSE IF ~dir.readable THEN [plugins |-> m, result |-> OkCount(0)]
    ELSE [plugins |-> m, result |-> OkCount(count_candidates(dir.entries))]

\* the stores a manager can hold: each name absent, or present with the
\* metadata register built for a plugin of that name, enabled or disabled
StoredEntries ==
    {PluginEntry([PluginMetadata_new(pl.name, pl.version, pl.plugin_type)
                    EXCEPT !.enabled = e]) : pl \in Plugins, e \in BOOLEAN}

Stores ==
    UNION {{m \in [D -> StoredEntries] : \A n \in D : m[n].metadata.name = n} :
             D \in SUBSET Names}

InitLoad ==
    /\ config \in PluginConfigs
    /\ plugins \in Stores
    /\ inflight = EmptyBag
    /\ last = NoReturn
    /\ successes = [n \in Names |-> 0]
    /\ lastToggle = [n \in Names |-> "none"]
    /\ removed = NothingRemoved
    /\ clean = TRUE
    /\ issued = {}
    /\ returnedOk = {}
    /\ LockFree

LoadPluginsFromDir(dir) ==
    /\ LET r == load_plugins_from_dir(plugins, dir)
       IN  /\ plugins' = r.plugins
           /\ last' = Returned("load_plugins_from_dir", dir, "", r.result)
    /\ UNCHANGED <<inflight, history, manager, locking>>

NextLoad == \E dir \in Dirs : LoadPluginsFromDir(dir)

SpecLoad == InitLoad /\ [][NextLoad]_vars

\* ------------------------------------------------------- the store's RwLock
\* tokio::sync::RwLock hands the lock out in the order of the requests: a
\* request joins the queue, and the head of the queue gets the lock when the
\* holders allow it.  A task stands at one of:
\*   idle                                  not in a call
\*   readWait, readHold                    get_metadata, list_plugins, list_by_type, is_enabled
\*   writeWait, writeHold                  unregister, enable, disable
\*   regReadWait, regReadHold              register, around contains_key (line 115)
\*   regBuilt                              register, metadata built (lines 121-125)
\*   regWriteWait, regWriteHold            register, around insert (lines 127-128)

\* what a waiting task asked for
Wants(pc) ==
    IF pc \in {"readWait", "regReadWait"} THEN "read"
    ELSE IF pc \in {"writeWait", "regWriteWait"} THEN "write"
    ELSE "none"

\* mutant: register keeps its read guard until it returns
Holds_guard_kept(pc) ==
    IF pc \in {"readHold", "regReadHold", "regBuilt", "regWriteWait"} THEN "read"
    ELSE IF pc \in {"writeHold", "regWriteHold"} THEN "write"
    ELSE "none"

\* the guard a task owns; register's read guard is a temporary of the
\* condition of its if and is dropped before the metadata is built
Holds(pc) ==
    IF pc \in {"readHold", "regReadHold"} THEN "read"
    ELSE IF pc \in {"writeHold", "regWriteHold"} THEN "write"
    ELSE "none"

HoldPc(pc) ==
    CASE pc = "readWait" -> "readHold"
      [] pc = "writeWait" -> "writeHold"
      [] pc = "regReadWait" -> "regReadHold"
      [] pc = "regWriteWait" -> "regWriteHold"

\* a read guard is given while no write guard is out, a write guard while
\* no guard at all is out
Grantable(mode) ==
    IF mode = "read" THEN \A u \in Tasks : Holds(task[u]) # "write"
    ELSE \A u \in Tasks : Holds(task[u]) = "none"

\* plugins.read().await of get_metadata, list_plugins, list_by_type, is_enabled
CallShared(t) ==
    /\ task[t] = "idle"
    /\ task' = [task EXCEPT ![t] = "readWait"]
    /\ queue' = Append(queue, t)
    /\ UNCHANGED <<plugins, inflight, last, history, manager>>

\* plugins.write().await of unregister, enable, disable
CallExclusive(t) ==
    /\ task[t] = "idle"
    /\ task' = [task EXCEPT ![t] = "writeWait"]
    /\ queue' = Append(queue, t)
    /\ UNCHANGED <<plugins, inflight, last, history, manager>>

\* self.plugins.read().await of register
CallRegister(t) ==
    /\ task[t] = "idle"
    /\ task' = [task EXCEPT ![t] = "regReadWait"]
    /\ queue' = Append(queue, t)
    /\ UNCHANGED <<plugins, inflight, last, history, manager>>

\* the lock goes to the head of the queue
Grant ==
    /\ queue # << >>
    /\ Grantable(Wants(task[Head(queue)]))
    /\ task' = [task EXCEPT ![Head(queue)] = HoldPc(task[Head(queue)])]
    /\ queue' = Tail(queue)
    /\ UNCHANGED <<plugins, inflight, last, history, manager>>

\* the body of a reading method: the store is read, the guard is dropped at return
SharedBody(t) ==
    /\ task[t] = "readHold"
    /\ task' = [task EXCEPT ![t] = "idle"]
    /\ UNCHANGED <<plugins, inflight, queue, last, history, manager>>

ExclusiveUnregister(t, name) ==
    /\ task[t] = "writeHold"
    /\ plugins' = unregister(plugins, name).plugins
    /\ task' = [task EXCEPT ![t] = "idle"]
    /\ UNCHANGED <<inflight, queue, last, history, manager>>

ExclusiveEnable(t, name) ==
    /\ task[t] = "writeHold"
    /\ plugins' = enable(plugins, name).plugins
    /\ task' = [task EXCEPT ![t] = "idle"]
    /\ UNCHANGED <<inflight, queue, last, history, manager>>

ExclusiveDisable(t, name) ==
    /\ task[t] = "writeHold"
    /\ plugins' = disable(plugins, name).plugins
    /\ task' = [task EXCEPT ![t] = "idle"]
    /\ UNCHANGED <<inflight, queue, last, history, manager>>

\* register, lines 114-119 with the name present: Err, read guard dropped
TaskRegisterDuplicate(t, plugin) ==
    /\ task[t] = "regReadHold"
    /\ register_check(plugins, plugin)
    /\ task' = [task EXCEPT ![t] = "idle"]
    /\ UNCHANGED <<plugins, inflight, queue, last, history, manager>>

\* register, lines 114-125 with the name absent: read guard dropped, metadata built
TaskRegisterCheck(t, plugin) ==
    /\ task[t] = "regReadHold"
    /\ ~register_check(plugins, plugin)
    /\ inflight' = inflight (+)
          SetToBag({PluginMetadata_new(plugin.name, plugin.version, plugin.plugin_type)})
    /\ task' = [task EXCEPT ![t] = "regBuilt"]
    /\ UNCHANGED <<plugins, queue, last, history, manager>>

\* register, line 127: self.plugins.write().await
TaskRegisterRequestWrite(t) ==
    /\ task[t] = "regBuilt"
    /\ task' = [task EXCEPT ![t] = "regWriteWait"]
    /\ queue' = Append(queue, t)
    /\ UNCHANGED <<plugins, inflight, last, history, manager>>

\* register, lines 128-129: insert, Ok(()), write guard dropped
TaskRegisterInsert(t, metadata) ==
    /\ task[t] = "regWriteHold"
    /\ BagIn(metadata, inflight)
    /\ plugins' = register_insert(plugins, metadata)
    /\ inflight' = inflight (-) SetToBag({metadata})
    /\ task' = [task EXCEPT ![t] = "idle"]
    /\ UNCHANGED <<queue, last, history, manager>>

\* the steps a task takes by itself once it has been given the lock
Run(t) ==
    \/ SharedBody(t)
    \/ \E name \in Names : ExclusiveUnregister(t, name)
    \/ \E name \in Names : ExclusiveEnable(t, name)
    \/ \E name \in Names : ExclusiveDisable(t, name)
    \/ \E plugin \in Plugins : TaskRegisterDuplicate(t, plugin)
    \/ \E plugin \in Plugins : TaskRegisterCheck(t, plugin)
    \/ TaskRegisterRequestWrite(t)
    \/ \E metadata \in BagToSet(inflight) : TaskRegisterInsert(t, metadata)

NextLock ==
    \/ \E t \in Tasks : CallShared(t)
    \/ \E t \in Tasks : CallExclusive(t)
    \/ \E t \in Tasks : CallRegister(t)
    \/ Grant
    \/ \E t \in Tasks : Run(t)

\* the lock is fair and the runtime keeps polling a task that can go on;
\* nothing makes a caller start a call
SpecLock ==
    /\ Init
    /\ [][NextLock]_vars
    /\ WF_vars(Grant)
    /\ \A t \in Tasks : WF_vars(Run(t))

\* ================================================================== claims
AllIdle == inflight = EmptyBag

\* the steps of a register call, told by what they leave behind
\* Passed: the metadata of the call that went past the test in this step;
\* Inserted: the metadata of the call whose insert ran in this step
Passed == {md \in BagToSet(inflight') : CopiesIn(md, inflight') > CopiesIn(md, inflight)}
Inserted == {md \in BagToSet(inflight) : CopiesIn(md, inflight) > CopiesIn(md, inflight')}
RegisterFails == last'.op = "register" /\ ~last'.val.ok
RegisterStep == RegisterFails \/ Passed # {} \/ Inserted # {}

\* the names of a list result, and how often a name occurs in it
NamesOf(list) == {list[i].name : i \in 1..Len(list)}
Occurrences(list, name) == Cardinality({i \in 1..Len(list) : list[i].name = name})

\* C1: registration of one name is atomic: of the register calls for a name
\* that race on a store without that name, at most one returns success
\* (counted per name since the name was last removed).
C1_AtMostOneSuccess ==
    \A n \in Names : successes[n] <= 1

\* C2: no step of a register call changes or removes an entry that is stored.
C2_RegisterNeverOverwrites ==
    [][RegisterStep =>
          \A n \in DOMAIN plugins :
              /\ n \in DOMAIN plugins'
              /\ plugins'[n] = plugins[n]]_vars

\* C3: a register call that finds its name in the store returns the
\* duplicate-registration error (only a call whose name is not there goes on
\* to the insert), and a register call that returns this error leaves the
\* store as it was.
C3_DuplicateRejected ==
    [][/\ \A md \in Passed : ~contains_key(plugins, md.name)
       /\ RegisterFails =>
             /\ last'.val.msg = "already registered"
             /\ last'.val.name = last'.arg
             /\ contains_key(plugins, last'.arg)
             /\ plugins' = plugins]_vars

C3_Witness ==
    /\ last.op = "register"
    /\ ~last.val.ok
    /\ last.found = "Disabled"
    /\ EntryState(plugins, last.arg) = "Disabled"

\* C4: when every register call so far had a name of its own and unregister
\* was never called, no register call fails; once all calls have returned the
\* store holds exactly the names given, and list_plugins returns each of them
\* once, in whatever order the map is visited.
C4_DistinctNamesAllListed ==
    /\ (clean /\ last.op = "register") => last.val.ok
    /\ (clean /\ AllIdle) =>
          /\ returnedOk = issued
          /\ DOMAIN plugins = issued
          /\ \A ord \in Orders(plugins) :
                LET list == list_plugins(plugins, ord)
                IN  /\ NamesOf(list) = issued
                    /\ \A n \in issued : Occurrences(list, n) = 1
          /\ last.op = "list_plugins" =>
                /\ NamesOf(last.val) = issued
                /\ Len(last.val) = Cardinality(issued)

C4_Witness ==
    /\ clean
    /\ AllIdle
    /\ Cardinality(issued) >= 2
    /\ last.op = "list_plugins"
    /\ Len(last.val) = Cardinality(issued)

\* C5: per name the state is Unregistered, Enabled or Disabled, and a step
\* changes it only along Unregistered -> Enabled, Enabled <-> Disabled,
\* Enabled -> Unregistered, Disabled -> Unregistered; never
\* Unregistered -> Disabled.
AllowedTransitions ==
    { <<"Unregistered", "Enabled">>, <<"Enabled", "Disabled">>, <<"Disabled", "Enabled">>,
      <<"Enabled", "Unregistered">>, <<"Disabled", "Unregistered">> }

C5_EntryStateMachine ==
    [][\A n \in Names :
          \/ EntryState(plugins', n) = EntryState(plugins, n)
          \/ <<EntryState(plugins, n), EntryState(plugins', n)>> \in AllowedTransitions]_vars

C5_Witness ==
    \E n \in Names :
        /\ EntryState(plugins, n) = "Unregistered"
        /\ last.op = "unregister"
        /\ last.arg = n
        /\ last.found = "Disabled"
        /\ lastToggle[n] = "none"
        /\ removed = [name |-> n, state |-> "Disabled"]

\* C6: unregister leaves no entry for the name: get_metadata is absent and
\* no visiting order of list_plugins shows it; the name stays absent until a
\* register insert takes effect; a register call that finds the name absent
\* is not refused, and its insert returns Ok and stores the metadata of its
\* own plugin with enabled = TRUE, whatever the removed entry held.
C6_UnregisterThenFresh ==
    [][/\ last'.op = "unregister" =>
             /\ ~get_metadata(plugins', last'.arg).some
             /\ \A ord \in Orders(plugins') :
                   last'.arg \notin NamesOf(list_plugins(plugins', ord))
       /\ (last'.op = "get_metadata" /\ ~contains_key(plugins', last'.arg)) =>
             ~last'.val.some
       /\ last'.op = "list_plugins" => NamesOf(last'.val) = DOMAIN plugins'
       /\ \A n \in Names :
             (~contains_key(plugins, n) /\ contains_key(plugins', n)) =>
                 \E md \in Inserted : md.name = n
       /\ RegisterFails => contains_key(plugins, last'.arg)
       /\ \A md \in Inserted :
             /\ last'.op = "register"
             /\ last'.arg = md.name
             /\ last'.val.ok
             /\ contains_key(plugins', md.name)
             /\ plugins'[md.name].metadata = md
             /\ plugins'[md.name].metadata.enabled]_vars

C6_Witness ==
    \E n \in Names :
        /\ removed = [name |-> n, state |-> "Disabled"]
        /\ last.op = "register"
        /\ last.arg = n
        /\ last.val.ok
        /\ last.found = "Unregistered"
        /\ get_metadata(plugins, n).some
        /\ get_metadata(plugins, n).val.enabled

\* C7: enable on an entry that is enabled, and disable on an entry that is
\* disabled, return Ok and leave the store as it was; after a successful
\* enable (disable) the same call once more returns Ok and gives the same
\* store again.
C7_EnableDisableIdempotent ==
    [][/\ (last'.op = "enable" /\ EntryState(plugins, last'.arg) = "Enabled") =>
             /\ last'.val.ok
             /\ plugins' = plugins
       /\ (last'.op = "disable" /\ EntryState(plugins, last'.arg) = "Disabled") =>
             /\ last'.val.ok
             /\ plugins' = plugins
       /\ (last'.op = "enable" /\ last'.val.ok) =>
             /\ enable(plugins', last'.arg).result.ok
             /\ enable(plugins', last'.arg).plugins = plugins'
       /\ (last'.op = "disable" /\ last'.val.ok) =>
             /\ disable(plugins', last'.arg).result.ok
             /\ disable(plugins', last'.arg).plugins = plugins']_vars

C7_Witness ==
    /\ last.op = "enable"
    /\ last.found = "Enabled"
    /\ last.val.ok
    /\ EntryState(plugins, last.arg) = "Enabled"

\* C8: on a name with no entry, is_enabled returns FALSE, enable and disable
\* return the not-found error, and none of the three changes the store.
C8_AbsentNameAsymmetry ==
    [][/\ (last'.op = "is_enabled" /\ ~contains_key(plugins, last'.arg)) =>
             /\ last'.val = FALSE
             /\ plugins' = plugins
       /\ (last'.op \in {"enable", "disable"} /\ ~contains_key(plugins, last'.arg)) =>
             /\ ~last'.val.ok
             /\ last'.val.msg = "not found"
             /\ last'.val.name = last'.arg
             /\ plugins' = plugins]_vars

C8_Witness ==
    /\ last.op = "enable"
    /\ last.found = "Unregistered"
    /\ ~last.val.ok
    /\ ~contains_key(plugins, last.arg)
    /\ plugins # EmptyMap

\* C9: for a registered name is_enabled returns the value of the latest
\* successful enable or disable since the name became registered, and TRUE
\* when there was none.
C9_IsEnabledFollowsLastToggle ==
    (last.op = "is_enabled" /\ contains_key(plugins, last.arg)) =>
        last.val = (lastToggle[last.arg] # "disable")

\* C10: list_by_type(t) returns, once each, the infos of exactly the stored
\* entries whose category is t; a Custom category is t only with the same
\* label, and never a built-in one.
SameCategory(a, b) ==
    IF a.tag = "Custom" \/ b.tag = "Custom"
    THEN a.tag = "Custom" /\ b.tag = "Custom" /\ a.label = b.label
    ELSE a.tag = b.tag

C10_ListByTypeExact ==
    last.op = "list_by_type" =>
        LET t == last.arg
            list == last.val
            expected == {n \in DOMAIN plugins : SameCategory(plugins[n].metadata.plugin_type, t)}
        IN  /\ NamesOf(list) = expected
            /\ Len(list) = Cardinality(expected)
            /\ \A i \in 1..Len(list) :
                  /\ list[i] = PluginInfo(plugins[list[i].name].metadata)
                  /\ list[i].plugin_type = t

C10_Witness ==
    /\ last.op = "list_by_type"
    /\ last.arg = Builtin("Backend")
    /\ Len(last.val) = 1
    /\ Cardinality(DOMAIN plugins) = 2

\* C16: unregister of a name that is not stored returns no metadata and
\* leaves the store as it was; unregister of a stored name returns that
\* entry's metadata as stored (its enabled flag included), takes out that
\* entry and no other, and leaves the other entries as they were.
C16_UnregisterFrame ==
    [][last'.op = "unregister" =>
          LET n == last'.arg
          IN  IF contains_key(plugins, n)
              THEN /\ last'.val.some
                   /\ last'.val.val = plugins[n].metadata
                   /\ DOMAIN plugins' = (DOMAIN plugins) \ {n}
                   /\ \A k \in DOMAIN plugins' : plugins'[k] = plugins[k]
              ELSE /\ ~last'.val.some
                   /\ plugins' = plugins]_vars

C16_Witness ==
    /\ last.op = "unregister"
    /\ last.val.some
    /\ ~last.val.val.enabled
    /\ ~contains_key(plugins, last.arg)
    /\ plugins # EmptyMap

\* C17: a successful enable or disable keeps the key set, keeps every field
\* but enabled of the entry it names and keeps every other entry; get_metadata,
\* list_plugins, list_by_type and is_enabled keep the whole store.
C17_ToggleAndQueryFrame ==
    [][/\ (last'.op \in {"enable", "disable"} /\ last'.val.ok) =>
             LET n == last'.arg
             IN  /\ DOMAIN plugins' = DOMAIN plugins
                 /\ n \in DOMAIN plugins
                 /\ \A k \in (DOMAIN plugins) \ {n} : plugins'[k] = plugins[k]
                 /\ plugins'[n].metadata.name = plugins[n].metadata.name
                 /\ plugins'[n].metadata.version = plugins[n].metadata.version
                 /\ plugins'[n].metadata.plugin_type = plugins[n].metadata.plugin_type
                 /\ plugins'[n].metadata.hooks = plugins[n].metadata.hooks
                 /\ plugins'[n].metadata.enabled = (last'.op = "enable")
       /\ last'.op \in {"get_metadata", "list_plugins", "list_by_type", "is_enabled"} =>
             plugins' = plugins]_vars

C17_Witness ==
    /\ last.op = "disable"
    /\ last.val.ok
    /\ last.found = "Enabled"
    /\ EntryState(plugins, last.arg) = "Disabled"
    /\ \E k \in (DOMAIN plugins) \ {last.arg} : plugins[k].metadata.enabled

\* C18: every entry is stored under the name in its metadata, and
\* list_plugins returns as many items as the store has keys, with names that
\* differ pairwise, in whatever order the map is visited.
C18_KeyIsName ==
    /\ \A k \in DOMAIN plugins : plugins[k].metadata.name = k
    /\ \A ord \in Orders(plugins) :
          LET list == list_plugins(plugins, ord)
          IN  /\ Len(list) = Cardinality(DOMAIN plugins)
              /\ \A i, j \in 1..Len(list) : i # j => list[i].name # list[j].name
    /\ last.op = "list_plugins" =>
          /\ Len(last.val) = Cardinality(DOMAIN plugins)
          /\ \A i, j \in 1..Len(last.val) : i # j => last.val[i].name # last.val[j].name

C18_Witness ==
    /\ last.op = "list_plugins"
    /\ Len(last.val) = 2
    /\ ~clean
    /\ inflight # EmptyBag

\* C20: the insert of a register call returns Ok and leaves, under the
\* call's name, an entry with the version and category of the call's plugin
\* and enabled = TRUE, whatever the store held for that name just before.
C20_InsertTakesEffect ==
    [][\A md \in Inserted :
          /\ last'.op = "register"
          /\ last'.arg = md.name
          /\ last'.val.ok
          /\ contains_key(plugins', md.name)
          /\ plugins'[md.name].metadata.version = md.version
          /\ plugins'[md.name].metadata.plugin_type = md.plugin_type
          /\ plugins'[md.name].metadata.enabled]_vars

C20_Witness ==
    /\ last.op = "register"
    /\ last.val.ok
    /\ last.found = "Disabled"
    /\ EntryState(plugins, last.arg) = "Enabled"

\* C12: the metadata a register call builds has the name, version and
\* category its plugin reports, enabled = TRUE and the seven hook flags
\* clear, and the insert stores exactly that metadata under the name; this
\* is so under either value of the manager's auto_enable.
HookNames ==
    {"pre_execution", "post_execution", "pre_routing", "post_routing",
     "on_error", "on_request", "on_response"}

C12_FreshMetadata ==
    [][/\ \A md \in Passed :
             /\ last'.op = "register_plugin.await"
             /\ md.name = last'.arg.name
             /\ md.version = last'.arg.version
             /\ md.plugin_type = last'.arg.plugin_type
             /\ md.enabled
             /\ DOMAIN md.hooks = HookNames
             /\ \A h \in HookNames : ~md.hooks[h]
       /\ \A md \in Inserted :
             /\ last'.op = "register_plugin"
             /\ last'.val.ok
             /\ contains_key(plugins', md.name)
             /\ plugins'[md.name].metadata = md
             /\ plugins'[md.name].metadata.enabled
             /\ \A h \in HookNames : ~plugins'[md.name].metadata.hooks[h]]_vars

C12_Witness ==
    /\ ~config.auto_enable
    /\ last.op = "register_plugin"
    /\ last.val.ok
    /\ plugins[last.arg].metadata.enabled
    /\ plugins[last.arg].metadata.version = "2.0.0"
    /\ plugins[last.arg].metadata.hooks = PluginHooks_none

\* C13: every manager call does to the store, and returns, what the
\* registry method of the same name does on the same store with the same
\* argument; get_plugin_info returns get_metadata's result cut down to
\* name, version, category and enabled.
SameResult(a, b) ==
    /\ a.ok = b.ok
    /\ ~a.ok => (a.kind = b.kind /\ a.msg = b.msg /\ a.name = b.name)

SameOption(a, b) ==
    /\ a.some = b.some
    /\ a.some => a.val = b.val

C13_ManagerPassThrough ==
    [][/\ (last'.op = "register_plugin" /\ ~last'.val.ok) =>
             /\ \E plugin \in Plugins : plugin.name = last'.arg /\ register_check(plugins, plugin)
             /\ SameResult(last'.val, AlreadyRegistered(last'.arg))
             /\ plugins' = plugins
       /\ \A md \in Passed :
             /\ ~register_check(plugins, last'.arg)
             /\ md = PluginMetadata_new(last'.arg.name, last'.arg.version, last'.arg.plugin_type)
             /\ plugins' = plugins
       /\ \A md \in Inserted :
             /\ plugins' = register_insert(plugins, md)
             /\ last'.op = "register_plugin"
             /\ last'.val.ok
       /\ last'.op = "unregister_plugin" =>
             /\ plugins' = unregister(plugins, last'.arg).plugins
             /\ SameOption(last'.val, unregister(plugins, last'.arg).result)
       /\ last'.op = "manager.list_plugins" =>
             /\ plugins' = plugins
             /\ \E ord \in Orders(plugins) : last'.val = list_plugins(plugins, ord)
       /\ last'.op = "get_plugin_info" =>
             /\ plugins' = plugins
             /\ last'.val.some = get_metadata(plugins, last'.arg).some
             /\ last'.val.some =>
                   last'.val.val = PluginInfo(get_metadata(plugins, last'.arg).val)
       /\ last'.op = "enable_plugin" =>
             /\ plugins' = enable(plugins, last'.arg).plugins
             /\ SameResult(last'.val, enable(plugins, last'.arg).result)
       /\ last'.op = "disable_plugin" =>
             /\ plugins' = disable(plugins, last'.arg).plugins
             /\ SameResult(last'.val, disable(plugins, last'.arg).result)]_vars

C13_Witness ==
    /\ last.op = "get_plugin_info"
    /\ last.val.some
    /\ ~last.val.val.enabled
    /\ last.val.val.version = "2.0.0"
    /\ ~plugins[last.arg].metadata.enabled

\* C14: load_plugins_from_dir returns Ok(0), never an error, whenever the
\* directory does not exist or cannot be read, whatever the directory holds.
C14_MissingDirIsZero ==
    (last.op = "load_plugins_from_dir" /\ (~last.arg.exists \/ ~last.arg.readable))
        => (last.val.ok /\ last.val.val = 0)

C14_Witness ==
    /\ last.op = "load_plugins_from_dir"
    /\ last.arg.exists
    /\ ~last.arg.readable
    /\ last.val.ok
    /\ last.val.val = 0
    /\ \A n \in Names : contains_key(plugins, n)

\* C15: load_plugins_from_dir leaves the store as it was for every directory
\* content: no entry is registered, removed, enabled or disabled, and no
\* register call is started, whatever count of candidates it reports.
C15_LoadLeavesStore ==
    [][last'.op = "load_plugins_from_dir" =>
          /\ plugins' = plugins
          /\ inflight' = inflight
          /\ last'.val.ok
          /\ last'.val.val = IF last'.arg.exists /\ last'.arg.readable
                             THEN count_candidates(last'.arg.entries) ELSE 0]_vars

C15_Witness ==
    /\ last.op = "load_plugins_from_dir"
    /\ last.val.ok
    /\ last.val.val = MaxDirEntries
    /\ \E n \in DOMAIN plugins : ~plugins[n].metadata.enabled
    /\ \E n \in Names : ~contains_key(plugins, n)

\* C19: no task is in the lock's queue while it owns a guard of the lock
\* (register has dropped its read guard when it asks for the write guard),
\* and with a fair lock every call that was started returns, so no set of
\* concurrent calls deadlocks.
C19_EveryCallReturns ==
    /\ [](\A i \in 1..Len(queue) : Holds(task[queue[i]]) = "none")
    /\ \A t \in Tasks : (task[t] # "idle") ~> (task[t] = "idle")

C19_Witness ==
    /\ \E t \in Tasks :
          /\ task[t] = "regWriteWait"
          /\ queue # << >>
          /\ Head(queue) = t
    /\ \E u \in Tasks : task[u] = "readHold"
    /\ plugins # EmptyMap

====
